---- MODULE Spec2Model ----
(***************************************************************************)
(* kwscrapebot: the Telegram bot that re-fetches registered pages, keeps   *)
(* one repeating job per (user, url) and notifies links not in the stored  *)
(* snapshot of the page.                                                   *)
(*                                                                         *)
(* Threads.  The command handlers of Bot run on the dispatcher thread, one *)
(* at a time; each is one action.  They touch the tables users and jobs,   *)
(* the registry _job_map and the job queue.  The body do_job of a          *)
(* repeating job runs on the job queue's threads: one execution at a time  *)
(* per telegram job, executions of different telegram jobs side by side.   *)
(* do_job touches the table links with one sqlite transaction per call of  *)
(* Database, so each such call is one step of the tick.                    *)
(***************************************************************************)
EXTENDS Integers, Sequences, FiniteSets, TLC

\* ------------------------------------------------------------------ bounds
\* Most telegram jobs ever put in the job queue between two process starts.
MaxJobs == 2
\* telegram.constants.MAX_MESSAGE_LENGTH is 4096; scaled down so that the
\* two links of the page universe do not fit in one message.
MAX_MESSAGE_LENGTH == 40

\* --------------------------------------------------------- program constants
\* Bot.__init__(minimum_interval = 15)
minimum_interval == 15
\* Number of positional parameters of Database.delete_job besides self.
delete_job_params == 1
\* Number of positional arguments both callers pass: db.delete_job(user, url).
delete_job_args == 2

\* ------------------------------------------------------------- input universe
Users == {1, 2}
UrlA == "https://a.io"
BadUrl == "a.io"
Urls == {UrlA}
Keys == Users \X Urls

\* Raw <a> tags a page can hold: (href, text) as BeautifulSoup yields them.
LinkX == [href |-> "/x", text |-> "Big Sale"]
LinkY == [href |-> "https://a.io/y", text |-> "About"]
LinkHash == [href |-> "#", text |-> "Sale top"]
\* The contents a page goes through.
Contents == {{}, {LinkX}, {LinkX, LinkY}}

\* Argument lists of /add (context.args, already split on whitespace).
AddArgs ==
    { <<>>, <<BadUrl, "15">>, <<UrlA>>, <<UrlA, "soon">>,
      <<UrlA, "20">>, <<UrlA, "10", "A">> }
\* Argument lists of /remove; /remove does not validate the url.
RemoveArgs == { <<>>, <<UrlA>>, <<BadUrl>> }

\* ---------------------------------------------------------------- strings
\* str.lower() on the letters the universe uses.
LowerChar(c) ==
    CASE c = "A" -> "a" [] c = "B" -> "b" [] c = "S" -> "s" [] OTHER -> c

RECURSIVE Lower(_)
Lower(s) == IF s = "" THEN "" ELSE LowerChar(Head(s)) \o Lower(Tail(s))

RECURSIVE LStrip(_)
LStrip(s) == IF s # "" /\ Head(s) = " " THEN LStrip(Tail(s)) ELSE s

RECURSIVE RStrip(_)
RStrip(s) ==
    IF s # "" /\ SubSeq(s, Len(s), Len(s)) = " "
    THEN RStrip(SubSeq(s, 1, Len(s) - 1)) ELSE s

\* str.strip()
Strip(s) == RStrip(LStrip(s))

\* k in text
Contains(text, k) ==
    \E i \in 1..(Len(text) - Len(k) + 1) : SubSeq(text, i, i + Len(k) - 1) = k

StartsWith(s, p) == Len(s) >= Len(p) /\ SubSeq(s, 1, Len(p)) = p

\* ' '.join(keywords)
RECURSIVE Join(_)
Join(ks) ==
    IF ks = <<>> THEN ""
    ELSE IF Len(ks) = 1 THEN ks[1] ELSE ks[1] \o " " \o Join(Tail(ks))

\* str.split(): cut on runs of blanks, no empty tokens.
RECURSIVE SplitFrom(_, _)
SplitFrom(s, cur) ==
    IF s = "" THEN (IF cur = "" THEN <<>> ELSE <<cur>>)
    ELSE IF Head(s) = " "
         THEN (IF cur = "" THEN <<>> ELSE <<cur>>) \o SplitFrom(Tail(s), "")
         ELSE SplitFrom(Tail(s), cur \o Head(s))

Split(s) == SplitFrom(s, "")

\* int(s) for the numerals of the universe; anything else is a ValueError.
IsInt(s) == s \in {"10", "15", "20"}
ParseInt(s) == CASE s = "10" -> 10 [] s = "15" -> 15 [] s = "20" -> 20

\* ------------------------------------------------------------ database.py
\* Job(user, url, freq, keywords) with __post_init__: every keyword is
\* stripped and put in lower case.
Job(user, url, freq, keywords) ==
    [user |-> user, url |-> url, freq |-> freq,
     keywords |-> [i \in 1..Len(keywords) |-> Lower(Strip(keywords[i]))]]

\* Job.kw_string: the keywords joined by blanks, None without keywords.
\* A column value is <<>> for NULL and <<s>> for the text s.
kw_string(job) == IF job.keywords # <<>> THEN <<Join(job.keywords)>> ELSE <<>>

\* Database.add_user: INSERT OR IGNORE INTO users.
add_user(us, new_user) == us \cup {new_user}

\* Without PRAGMA foreign_keys = ON sqlite does not enforce the reference.
add_job_raises_never(us, job) == FALSE

\* Database.add_job raises sqlite3.IntegrityError when jobs.user does not
\* reference a row of users (PRAGMA foreign_keys = ON).
add_job_raises(us, job) == job.user \notin us

\* INSERT OR IGNORE instead: the row of a key that has one stays as it was.
add_job_or_ignore(js, job) ==
    IF <<job.user, job.url>> \in DOMAIN js THEN js
    ELSE (<<job.user, job.url>> :> [freq |-> job.freq, keywords |-> kw_string(job)])
             @@ js

\* Database.add_job: INSERT OR REPLACE INTO jobs, primary key (user, url).
add_job(js, job) ==
    (<<job.user, job.url>> :> [freq |-> job.freq, keywords |-> kw_string(job)])
        @@ js

\* The rows Database.get_jobs selects: all of them, or those of one user.
job_rows(js, user) == {k \in DOMAIN js : user = 0 \/ k[1] = user}

\* Database.get_jobs evaluates r[3].split() on every selected row, which
\* raises AttributeError on a row whose keywords column is NULL.
get_jobs_raises(js, user) == \E k \in job_rows(js, user) : js[k].keywords = <<>>

\* Database.get_jobs: Job(r[0], r[1], r[2], r[3].split()) per selected row.
get_jobs(js, user) ==
    {Job(k[1], k[2], js[k].freq, Split(js[k].keywords[1])) : k \in job_rows(js, user)}

\* The call as it would be with delete_job(self, user, url): it returns.
delete_job_returns == FALSE

\* A call db.delete_job(user, url) of the method delete_job(self, job) raises
\* TypeError before the body runs: the argument count does not match.
delete_job_raises == delete_job_args # delete_job_params

\* Database.delete_job: DELETE FROM jobs WHERE user = ? AND url = ?.
delete_job(js, user, url) == [k \in DOMAIN js \ {<<user, url>>} |-> js[k]]

\* Database.get_links(url): the Link(href, body) of every row of the url.
get_links(ls, url) == ls[url]

\* Database.reset_links: DELETE FROM links WHERE url = ?.
reset_links(ls, url) == [ls EXCEPT ![url] = {}]

\* Database.add_links: INSERT OR REPLACE per link, primary key (url, href, body).
add_links(ls, url, lks) == [ls EXCEPT ![url] = @ \cup lks]

\* --------------------------------------------------------- utils.py, scrape.py
\* The pattern of utils.is_valid_url: scheme http(s) or ftp(s), then a
\* dotted domain.
url_pattern(url) ==
    \E p \in {"http://", "https://", "ftp://", "ftps://"} :
        /\ StartsWith(url, p)
        /\ Contains(SubSeq(url, Len(p) + 1, Len(url)), ".")
        /\ ~Contains(url, " ")

\* The urls /add is given, and those among them that match the pattern
\* (matched once, not at every call).
UrlArgs == {a[1] : a \in {x \in AddArgs : x # <<>>}}
valid_urls == {u \in UrlArgs : url_pattern(u)}

\* utils.is_valid_url
is_valid_url(url) == url \in valid_urls

\* urllib.parse.urljoin(url, href) for a base without path.
urljoin(url, href) ==
    IF href = "" THEN url
    ELSE IF Contains(href, "://") THEN href
    ELSE IF Head(href) = "/" THEN url \o href
    ELSE url \o "/" \o href

\* utils.to_abs_urls
to_abs_urls(url, lks) == {[href |-> urljoin(url, l.href), text |-> l.text] : l \in lks}

\* LinkKeywordParser._matches: some keyword occurs in the lower-case text.
\* The parser holds tuple(keywords) in lower case.
matches(keywords, link) ==
    \E i \in 1..Len(keywords) : Contains(Lower(link.text), Lower(keywords[i]))

\* LinkKeywordParser(keywords).parse(content): the <a> tags whose href is not
\* '#'; all of them when keywords is None, else those that match.
parse(keywords_is_None, keywords, content) ==
    LET lks == {l \in content : l.href # "#"}
    IN  IF keywords_is_None THEN lks ELSE {l \in lks : matches(keywords, l)}

\* The text of one link in a message.
entry(link) == link.text \o "\n" \o link.href

sep == "\n---\n"

\* utils.split_links: the loop over links[1::]; msg is the list of links of
\* the message under construction and len its length in characters.
RECURSIVE split_loop(_, _, _, _)
split_loop(rest, result, msg, len) ==
    IF rest = <<>> THEN Append(result, msg)
    ELSE LET e == Len(sep) + Len(entry(Head(rest)))
         IN  IF len + e > MAX_MESSAGE_LENGTH
             THEN split_loop(Tail(rest), Append(result, msg),
                             <<Head(rest)>>, Len(entry(Head(rest))))
             ELSE split_loop(Tail(rest), result, Append(msg, Head(rest)), len + e)

\* utils.split_links(links): the messages, each as the links it carries.
split_links(lks) == split_loop(Tail(lks), <<>>, <<lks[1]>>, Len(entry(lks[1])))

\* list(set): the elements in any order.
Orders(S) ==
    {s \in [1..Cardinality(S) -> S] : \A i, j \in DOMAIN s : i # j => s[i] # s[j]}

Range(s) == {s[i] : i \in DOMAIN s}

\* ------------------------------------------------------------------ state
VARIABLES
    users,      \* table users: the ids registered with /start
    jobs,       \* table jobs: (user, url) -> [freq, keywords]
    links,      \* table links: url -> the stored set of Link(href, body)
    _job_map,   \* Bot._job_map: (user, url) -> its telegram job (slot in queue)
    queue,      \* the telegram jobs the JobQueue holds or is still executing
    run,        \* per telegram job: the execution of do_job in progress
    page,       \* url -> the <a> tags the page holds now (besides LinkHash)
    out,        \* what the last step of the bot put out
    running,    \* the Bot was constructed and polls
    chat        \* user -> the links of the messages in the user's chat, where
                \* the specification keeps them (see TickSendNoted)

vars == <<users, jobs, links, _job_map, queue, run, page, out, running, chat>>

Slots == 1..MaxJobs

\* No execution of do_job in progress.  Of an execution: pc is the next
\* step, links, old_links, new_links and messages are the locals of do_job,
\* delivered the links of the messages sent so far, wrote whether it has
\* written the links table, error the exception it caught.
IdleTick ==
    [pc |-> "idle", links |-> {}, old_links |-> {}, new_links |-> {},
     messages |-> <<>>, delivered |-> {}, error |-> "none", wrote |-> FALSE]

\* A command handler ran: the replies it sent to the user.
Reply(msgs) ==
    [src |-> "handler", what |-> msgs, user |-> 0, url |-> "",
     delivered |-> {}, wrote |-> FALSE]

\* The execution r of do_job for (user, url) ended: how, which links it
\* had delivered and whether it had written the links table.
Ended(how, user, url, r) ==
    [src |-> "do_job", what |-> <<how>>, user |-> user, url |-> url,
     delivered |-> r.delivered, wrote |-> r.wrote]

\* A step that puts nothing out.
Silent ==
    [src |-> "none", what |-> <<>>, user |-> 0, url |-> "",
     delivered |-> {}, wrote |-> FALSE]

KeyOf(t) == <<queue[t].user, queue[t].url>>

Without(f, x) == [y \in DOMAIN f \ {x} |-> f[y]]

\* ------------------------------------------------------------------- bot.py
\* _unschedule that pops the key and forgets to cancel the telegram job.
schedule_removal_forgotten(q, r, t) == [queue |-> q, run |-> r]

\* telegram.ext.Job.schedule_removal(): the job is never started again; an
\* execution in progress goes on, and the queue holds the job until then.
schedule_removal(q, r, t) ==
    IF r[t].pc = "idle"
    THEN [queue |-> Without(q, t), run |-> Without(r, t)]
    ELSE [queue |-> [q EXCEPT ![t].removed = TRUE], run |-> r]

\* An execution of do_job returned or raised: a removed job leaves the queue.
end_run(q, r, t) ==
    IF q[t].removed
    THEN [queue |-> Without(q, t), run |-> Without(r, t)]
    ELSE [queue |-> q, run |-> [r EXCEPT ![t] = IdleTick]]

\* Bot._unschedule: pop the key from _job_map and, when it was there,
\* schedule_removal() of the telegram job.
_unschedule(map, q, r, user, url) ==
    IF <<user, url>> \in DOMAIN map
    THEN LET s == schedule_removal(q, r, map[<<user, url>>])
         IN  [map |-> Without(map, <<user, url>>), queue |-> s.queue, run |-> s.run]
    ELSE [map |-> map, queue |-> q, run |-> r]

\* JobQueue.run_repeating(callback, interval, first): a new telegram job.
\* make_job_callback closes over job.user, job.url and job.keywords.
run_repeating(job, interval, first) ==
    [user |-> job.user, url |-> job.url, keywords |-> job.keywords,
     interval |-> interval, first |-> first, removed |-> FALSE]

FreeSlots(q) == Slots \ DOMAIN q

NewSlot(q) == CHOOSE t \in FreeSlots(q) : \A o \in FreeSlots(q) : t <= o

\* Bot._schedule: _unschedule, then the job returned by run_repeating(
\* make_job_callback(job), 60 * job.freq, 1) is stored under the key.
_schedule(map, q, r, job) ==
    LET u == _unschedule(map, q, r, job.user, job.url)
        t == NewSlot(u.queue)
    IN  [map |-> (<<job.user, job.url>> :> t) @@ u.map,
         queue |-> (t :> run_repeating(job, 60 * job.freq, 1)) @@ u.queue,
         run |-> (t :> IdleTick) @@ u.run]

\* Whether the job queue of the model has room for the job Bot._schedule adds.
CanSchedule(map, q, r, job) ==
    FreeSlots(_unschedule(map, q, r, job.user, job.url).queue) # {}

\* for job in Database(...).get_jobs(): self._schedule(job)
RECURSIVE schedule_all(_, _, _, _)
schedule_all(map, q, r, js) ==
    IF js = {} THEN [map |-> map, queue |-> q, run |-> r]
    ELSE LET job == CHOOSE j \in js : TRUE
             s == _schedule(map, q, r, job)
         IN  schedule_all(s.map, s.queue, s.run, js \ {job})

Init ==
    /\ users = {}
    /\ jobs = <<>>
    /\ links = [u \in Urls |-> {}]
    /\ _job_map = <<>>
    /\ queue = <<>>
    /\ run = <<>>
    /\ page = [u \in Urls |-> {}]
    /\ out = Silent
    /\ running = TRUE
    /\ chat = [u \in Users |-> {}]

\* Process start on the database as it is: Bot.__init__ with an empty
\* _job_map and job queue, then the loader.  get_jobs raising ends the
\* constructor with the exception: no Bot, nothing scheduled.
Restart ==
    /\ out' = Silent
    /\ IF get_jobs_raises(jobs, 0)
       THEN /\ running' = FALSE
            /\ _job_map' = <<>>
            /\ queue' = <<>>
            /\ run' = <<>>
       ELSE LET s == schedule_all(<<>>, <<>>, <<>>, get_jobs(jobs, 0))
            IN  /\ running' = TRUE
                /\ _job_map' = s.map
                /\ queue' = s.queue
                /\ run' = s.run
    /\ UNCHANGED <<users, jobs, links, page, chat>>

\* The interval taken as the user gave it.
interval_as_given(freq) == freq

\* if freq < self._minimum_interval: freq = self._minimum_interval
interval_floor(freq) == IF freq < minimum_interval THEN minimum_interval ELSE freq

\* Bot._add_user (/start)
AddUser(user) ==
    /\ running
    /\ users' = add_user(users, user)
    /\ out' = Reply(<<"start">>)
    /\ UNCHANGED <<jobs, links, _job_map, queue, run, page, running, chat>>

\* Bot._add_job (/add <url> <m> <keyword> ...)
AddJob(user, args) ==
    /\ running
    /\ IF Len(args) < 1
       THEN \* context.args[0]: IndexError
            /\ out' = Reply(<<"usage_add">>)
            /\ UNCHANGED <<jobs, _job_map, queue, run>>
       ELSE IF ~is_valid_url(args[1])
       THEN /\ out' = Reply(<<"invalid_url">>)
            /\ UNCHANGED <<jobs, _job_map, queue, run>>
       ELSE IF Len(args) < 2 \/ ~IsInt(args[2])
       THEN \* context.args[1]: IndexError; int(): ValueError
            /\ out' = Reply(<<"usage_add">>)
            /\ UNCHANGED <<jobs, _job_map, queue, run>>
       ELSE LET low == ParseInt(args[2]) < minimum_interval
                freq == interval_floor(ParseInt(args[2]))
                keywords == IF Len(args) > 2 THEN SubSeq(args, 3, Len(args)) ELSE <<>>
                job == Job(user, args[1], freq, keywords)
                told == IF low THEN <<"minimum">> ELSE <<>>
            IN  IF add_job_raises(users, job)
                THEN \* IntegrityError leaves the handler
                     /\ out' = Reply(told)
                     /\ UNCHANGED <<jobs, _job_map, queue, run>>
                ELSE LET s == _schedule(_job_map, queue, run, job)
                     IN  /\ CanSchedule(_job_map, queue, run, job)
                         /\ jobs' = add_job(jobs, job)
                         /\ _job_map' = s.map
                         /\ queue' = s.queue
                         /\ run' = s.run
                         /\ out' = Reply(Append(told, "will_start"))
    /\ UNCHANGED <<users, links, page, running, chat>>

\* Bot._add_job when Database.add_job raises sqlite3.OperationalError (the
\* database file is locked by a writer on the job queue's threads, or the
\* disk is full): like IntegrityError it is not caught and leaves the
\* handler after the reply about the minimum, before _schedule.
AddJobStoreError(user, args) ==
    /\ running
    /\ Len(args) >= 2
    /\ is_valid_url(args[1])
    /\ IsInt(args[2])
    /\ out' = Reply(IF ParseInt(args[2]) < minimum_interval
                    THEN <<"minimum">> ELSE <<>>)
    /\ UNCHANGED <<users, jobs, links, _job_map, queue, run, page, running, chat>>

\* Bot._remove_job (/remove <url>)
RemoveJob(user, args) ==
    /\ running
    /\ IF Len(args) < 1
       THEN \* context.args[0]: IndexError
            /\ out' = Reply(<<"usage_remove">>)
            /\ UNCHANGED <<jobs, _job_map, queue, run>>
       ELSE IF get_jobs_raises(jobs, user)
       THEN \* AttributeError leaves the handler
            /\ out' = Reply(<<>>)
            /\ UNCHANGED <<jobs, _job_map, queue, run>>
       ELSE IF args[1] \notin {j.url : j \in get_jobs(jobs, user)}
       THEN /\ out' = Reply(<<"no_such_job">>)
            /\ UNCHANGED <<jobs, _job_map, queue, run>>
       ELSE IF delete_job_raises
       THEN \* TypeError leaves the handler
            /\ out' = Reply(<<>>)
            /\ UNCHANGED <<jobs, _job_map, queue, run>>
       ELSE LET u == _unschedule(_job_map, queue, run, user, args[1])
            IN  /\ jobs' = delete_job(jobs, user, args[1])
                /\ _job_map' = u.map
                /\ queue' = u.queue
                /\ run' = u.run
                /\ out' = Reply(<<"removed">>)
    /\ UNCHANGED <<users, links, page, running, chat>>

\* The monitored page changes.
PageChange(url, content) ==
    /\ content # page[url]
    /\ page' = [page EXCEPT ![url] = content]
    /\ UNCHANGED <<users, jobs, links, _job_map, queue, run, out, running, chat>>

\* No execution of do_job in progress (a handler is one step).
Quiescent == \A t \in DOMAIN run : run[t].pc = "idle"

\* ------------------------------------------------ make_job_callback.do_job
\* JavascriptDownloader().download(url): the page as it is now.
download(url) == page[url] \cup {LinkHash}

\* The difference forgotten: every fetched link counts as new.
diff_keeps_old(lks, old_links) == lks

\* set(links) - old_links
diff(lks, old_links) == lks \ old_links

\* do_job of t returns or raises: the outcome, and t is idle again.
Finish(t, how) ==
    LET e == end_run(queue, run, t)
    IN  /\ queue' = e.queue
        /\ run' = e.run
        /\ out' = Ended(how, queue[t].user, queue[t].url, run[t])

\* The job queue starts an execution of t: t was not removed and its
\* previous execution returned.  Download and parse.
TickFetch(t) ==
    /\ running
    /\ t \in DOMAIN queue
    /\ ~queue[t].removed
    /\ run[t].pc = "idle"
    /\ run' = [run EXCEPT ![t] =
                 [IdleTick EXCEPT !.pc = "fetched",
                     !.links = parse(FALSE, queue[t].keywords, download(queue[t].url))]]
    /\ out' = Silent
    /\ UNCHANGED <<users, jobs, links, _job_map, queue, page, running, chat>>

\* A failed download taken for a page that is gone: the job is cancelled.
TickFetchFail_cancels(t) ==
    /\ running
    /\ t \in DOMAIN queue
    /\ ~queue[t].removed
    /\ run[t].pc = "idle"
    /\ _job_map' = Without(_job_map, KeyOf(t))
    /\ queue' = Without(queue, t)
    /\ run' = Without(run, t)
    /\ out' = Ended("fetch_error", queue[t].user, queue[t].url, run[t])
    /\ UNCHANGED <<users, jobs, links, page, running, chat>>

\* download raises (network, render, timeout): the exception leaves do_job.
TickFetchFail(t) ==
    /\ running
    /\ t \in DOMAIN queue
    /\ ~queue[t].removed
    /\ run[t].pc = "idle"
    /\ Finish(t, "fetch_error")
    /\ UNCHANGED <<users, jobs, links, _job_map, page, running, chat>>

\* An empty fetch taken for "the page has no links any more".
TickNoLinks_resets(t) ==
    /\ t \in DOMAIN run
    /\ run[t].pc = "fetched"
    /\ run[t].links = {}
    /\ links' = reset_links(links, queue[t].url)
    /\ Finish(t, "no_links")
    /\ UNCHANGED <<users, jobs, _job_map, page, running, chat>>

\* if links: ... else: logging.info("No links found ...")
TickNoLinks(t) ==
    /\ t \in DOMAIN run
    /\ run[t].pc = "fetched"
    /\ run[t].links = {}
    /\ Finish(t, "no_links")
    /\ UNCHANGED <<users, jobs, links, _job_map, page, running, chat>>

\* to_abs_urls, db.get_links, the difference, and with new links split_links.
TickGetLinks(t) ==
    /\ t \in DOMAIN run
    /\ run[t].pc = "fetched"
    /\ run[t].links # {}
    /\ LET lks == to_abs_urls(queue[t].url, run[t].links)
           old_links == get_links(links, queue[t].url)
           new_links == diff(lks, old_links)
       IN  IF new_links # {}
           THEN /\ \E order \in Orders(new_links) :
                     run' = [run EXCEPT ![t] =
                         [@ EXCEPT !.pc = "send", !.links = lks,
                                   !.old_links = old_links, !.new_links = new_links,
                                   !.messages = split_links(order)]]
                /\ out' = Silent
                /\ queue' = queue
           ELSE Finish(t, "no_new")
    /\ UNCHANGED <<users, jobs, links, _job_map, page, running, chat>>

\* context.bot.send_message of the next message succeeds: what do_job does.
send_message(t) ==
    /\ t \in DOMAIN run
    /\ run[t].pc = "send"
    /\ run' = [run EXCEPT ![t] =
                 [@ EXCEPT !.delivered = @ \cup Range(Head(run[t].messages)),
                           !.messages = Tail(@),
                           !.pc = IF Tail(run[t].messages) = <<>> THEN "reset" ELSE "send"]]
    /\ out' = Silent
    /\ UNCHANGED <<users, jobs, links, _job_map, queue, page, running>>

\* The message sent, the chat of the user not kept.
TickSend(t) == send_message(t) /\ UNCHANGED chat

\* The message sent and kept: its links are in the chat of chat_id = user.
TickSendNoted(t) ==
    /\ send_message(t)
    /\ chat' = [chat EXCEPT ![queue[t].user] = @ \cup Range(Head(run[t].messages))]

\* send_message raises telegram.error.Unauthorized: the handler calls
\* db.delete_job(user, url); if that call returns, do_job goes on after the
\* try statement with reset_links and add_links.
TickSendUnauthorized(t) ==
    /\ t \in DOMAIN run
    /\ run[t].pc = "send"
    /\ IF delete_job_raises
       THEN \* TypeError leaves do_job
            /\ Finish(t, "unauthorized")
            /\ jobs' = jobs
       ELSE /\ run' = [run EXCEPT ![t] =
                         [@ EXCEPT !.error = "unauthorized", !.pc = "reset"]]
            /\ jobs' = delete_job(jobs, queue[t].user, queue[t].url)
            /\ out' = Silent
            /\ queue' = queue
    /\ UNCHANGED <<users, links, _job_map, page, running, chat>>

\* Every telegram error handled as Unauthorized is: the row is deleted.
TickSendError_retires(t) ==
    /\ t \in DOMAIN run
    /\ run[t].pc = "send"
    /\ jobs' = delete_job(jobs, queue[t].user, queue[t].url)
    /\ Finish(t, "send_error")
    /\ UNCHANGED <<users, links, _job_map, page, running, chat>>

\* send_message raises another telegram error: it leaves do_job.
TickSendError(t) ==
    /\ t \in DOMAIN run
    /\ run[t].pc = "send"
    /\ Finish(t, "send_error")
    /\ UNCHANGED <<users, jobs, links, _job_map, page, running, chat>>

\* db.reset_links(url)
TickResetLinks(t) ==
    /\ t \in DOMAIN run
    /\ run[t].pc = "reset"
    /\ links' = reset_links(links, queue[t].url)
    /\ run' = [run EXCEPT ![t] = [@ EXCEPT !.pc = "add", !.wrote = TRUE]]
    /\ out' = Silent
    /\ UNCHANGED <<users, jobs, _job_map, queue, page, running, chat>>

\* db.add_links(url, links), then do_job returns.
TickAddLinks(t) ==
    /\ t \in DOMAIN run
    /\ run[t].pc = "add"
    /\ links' = add_links(links, queue[t].url, run[t].links)
    /\ Finish(t, IF run[t].error = "unauthorized" THEN "unauthorized" ELSE "sent")
    /\ UNCHANGED <<users, jobs, _job_map, page, running, chat>>

Next ==
    \/ Restart
    \/ \E user \in Users : AddUser(user)
    \/ \E user \in Users, args \in AddArgs : AddJob(user, args)
    \/ \E user \in Users, args \in AddArgs : AddJobStoreError(user, args)
    \/ \E user \in Users, args \in RemoveArgs : RemoveJob(user, args)
    \/ \E url \in Urls, content \in Contents : PageChange(url, content)
    \/ \E t \in Slots : TickFetch(t)
    \/ \E t \in Slots : TickFetchFail(t)
    \/ \E t \in Slots : TickNoLinks(t)
    \/ \E t \in Slots : TickGetLinks(t)
    \/ \E t \in Slots : TickSend(t)
    \/ \E t \in Slots : TickSendUnauthorized(t)
    \/ \E t \in Slots : TickSendError(t)
    \/ \E t \in Slots : TickResetLinks(t)
    \/ \E t \in Slots : TickAddLinks(t)

Spec == Init /\ [][Next]_vars

\* -------------------------------------------- a page that does not change
\* The Bot on an empty database, the page holding both links from the start.
InitFixedPage ==
    /\ users = {}
    /\ jobs = <<>>
    /\ links = [u \in Urls |-> {}]
    /\ _job_map = <<>>
    /\ queue = <<>>
    /\ run = <<>>
    /\ page = [u \in Urls |-> {LinkX, LinkY}]
    /\ out = Silent
    /\ running = TRUE
    /\ chat = [u \in Users |-> {}]

\* The job queue starts an execution of t while no other is in progress.
TickFetchAlone(t) == Quiescent /\ TickFetch(t)

\* Two users monitor the page with different keywords: "sale" is in the
\* text of LinkX only, "about" in the text of LinkY only.
SharedArgs(user) ==
    IF user = 1 THEN <<UrlA, "15", "sale">> ELSE <<UrlA, "15", "about">>

\* The page never changes, every download and every send_message succeeds,
\* and the job queue runs one execution of do_job at a time.
NextShared ==
    \/ \E user \in Users : AddUser(user)
    \/ \E user \in Users : AddJob(user, SharedArgs(user))
    \/ \E t \in Slots : TickFetchAlone(t)
    \/ \E t \in Slots : TickGetLinks(t)
    \/ \E t \in Slots : TickSendNoted(t)
    \/ \E t \in Slots : TickResetLinks(t)
    \/ \E t \in Slots : TickAddLinks(t)

SpecShared == InitFixedPage /\ [][NextShared]_vars

\* One user monitors the page with a keyword that is in the text of both
\* links, so that a notification of both takes two messages.
RetryArgs == <<UrlA, "15", "A">>

\* The page never changes, send_message can fail with a transient error,
\* and the job queue runs one execution of do_job at a time.
NextRetry ==
    \/ AddUser(1)
    \/ AddJob(1, RetryArgs)
    \/ \E t \in Slots : TickFetchAlone(t)
    \/ \E t \in Slots : TickGetLinks(t)
    \/ \E t \in Slots : TickSendNoted(t)
    \/ \E t \in Slots : TickSendError(t)
    \/ \E t \in Slots : TickResetLinks(t)
    \/ \E t \in Slots : TickAddLinks(t)

SpecRetry == InitFixedPage /\ [][NextRetry]_vars

\* ------------------------------------------------------------------ claims
LiveJobs(key) == {t \in DOMAIN queue : KeyOf(t) = key /\ ~queue[t].removed}

\* The links of the messages not sent yet.
Pending(msgs) == UNION {Range(msgs[i]) : i \in DOMAIN msgs}

\* out is the outcome `how` of an execution of do_job.
JustEnded(how) == out.src = "do_job" /\ out.what = <<how>>

\* C1: every key has at most one telegram job that was not cancelled, it has
\* one exactly when the key is in _job_map, and _job_map holds that job.
C1_OneJobPerKey ==
    \A key \in Keys :
        /\ Cardinality(LiveJobs(key)) <= 1
        /\ key \in DOMAIN _job_map <=> Cardinality(LiveJobs(key)) = 1
        /\ key \in DOMAIN _job_map => LiveJobs(key) = {_job_map[key]}

\* C1 witness: a key was scheduled again while its first job was executing:
\* the cancelled job is still in the queue next to the one that replaced it.
C1_Witness ==
    \E t \in DOMAIN queue :
        /\ queue[t].removed
        /\ KeyOf(t) \in DOMAIN _job_map
        /\ _job_map[KeyOf(t)] # t

\* C2 (as claimed): once an execution of do_job ended on telegram's
\* Unauthorized, its subscription is in neither the jobs table nor _job_map.
C2_UnauthorizedRetires ==
    JustEnded("unauthorized") =>
        /\ <<out.user, out.url>> \notin DOMAIN jobs
        /\ <<out.user, out.url>> \notin DOMAIN _job_map

\* C3: an execution of do_job that ended on telegram's Unauthorized has not
\* written the links table.
C3_UnauthorizedKeepsSnapshot == JustEnded("unauthorized") => ~out.wrote

\* C3 witness: an execution ended on Unauthorized while a snapshot was stored.
C3_Witness == JustEnded("unauthorized") /\ links[out.url] # {}

\* C4 (as claimed): /remove of a url the user has a job for leaves the key in
\* neither the jobs table nor _job_map.
C4_RemoveRetires ==
    [][\A user \in Users, args \in RemoveArgs :
          (RemoveJob(user, args) /\ Len(args) >= 1
              /\ <<user, args[1]>> \in DOMAIN jobs)
          => /\ <<user, args[1]>> \notin DOMAIN jobs'
             /\ <<user, args[1]>> \notin DOMAIN _job_map']_vars

\* _unschedule leaves the key out of _job_map, whatever the state.
C5_KeyAbsent ==
    \A key \in Keys :
        key \notin DOMAIN _unschedule(_job_map, queue, run, key[1], key[2]).map

\* An execution of do_job only starts for the job _job_map holds for its key:
\* never for a job _unschedule has cancelled.
C5_NoNewTick ==
    \A t \in Slots :
        (TickFetch(t) \/ TickFetchFail(t))
        => (KeyOf(t) \in DOMAIN _job_map /\ _job_map[KeyOf(t)] = t)

\* A command handler (the step that puts a reply out) leaves every execution
\* in progress as it is.
C5_NotAborted ==
    (out'.src = "handler" /\ out' # out)
    => \A t \in DOMAIN run :
           run[t].pc # "idle" => (t \in DOMAIN run' /\ run'[t] = run[t])

\* C5: after _unschedule the key is not in _job_map and no execution starts
\* for the cancelled job; an execution in progress goes on.
C5_Unschedule == []C5_KeyAbsent /\ [][C5_NoNewTick]_vars /\ [][C5_NotAborted]_vars

\* C5 witness: a cancelled job whose execution went on to write the snapshot.
C5_Witness == \E t \in DOMAIN queue : queue[t].removed /\ run[t].pc = "add"

\* C6 (as claimed): with no execution in progress the keys of _job_map are
\* the keys of the jobs table.
C6_RegistryIsStore == Quiescent => DOMAIN _job_map = DOMAIN jobs

\* What an execution holds once it has read the snapshot: the new links are
\* the fetched ones without the stored ones, only those are delivered, and
\* all of them when every message was sent.
C7_Notified ==
    \A t \in DOMAIN run :
        run[t].pc \in {"send", "reset", "add"} =>
            /\ run[t].new_links = run[t].links \ run[t].old_links
            /\ run[t].delivered \cap run[t].old_links = {}
            /\ run[t].pc = "send" =>
                   run[t].delivered \cup Pending(run[t].messages) = run[t].new_links
            /\ (run[t].pc # "send" /\ run[t].error = "none") =>
                   run[t].delivered = run[t].new_links

\* The step that reads the snapshot: the messages to send carry the fetched,
\* absolute links that the links table does not hold at that moment.
C7_Read ==
    \A t \in Slots :
        TickGetLinks(t) =>
            LET fetched == to_abs_urls(queue[t].url, run[t].links)
                stored == links[queue[t].url]
            IN  IF fetched \ stored = {}
                THEN out'.what = <<"no_new">> /\ out'.delivered = {}
                ELSE /\ run'[t].links = fetched
                     /\ run'[t].old_links = stored
                     /\ Pending(run'[t].messages) = fetched \ stored

\* C7: an execution notifies the fetched links minus the stored ones: never
\* a stored link, and every fetched link when nothing is stored.
C7_NotifyIsDifference == []C7_Notified /\ [][C7_Read]_vars

\* C7 witness: every message was sent, and a fetched link was not among them
\* because the snapshot held it.
C7_Witness ==
    \E t \in DOMAIN run :
        /\ run[t].pc = "reset"
        /\ run[t].error = "none"
        /\ run[t].delivered # {}
        /\ run[t].links \cap run[t].old_links # {}

\* C8 (as claimed): when an execution that delivered its new links returns,
\* the links table holds for the url exactly the links it fetched.
C8_SnapshotIsFetched ==
    [][\A t \in Slots :
          (TickAddLinks(t) /\ run[t].error = "none")
          => links'[queue[t].url] = run[t].links]_vars

\* C9 (as claimed): an execution that fetched a proper subset of the stored
\* snapshot, so nothing new, stores what it fetched.
C9_NoNewStillStores ==
    [][\A t \in Slots :
          LET fetched == to_abs_urls(queue[t].url, run[t].links)
              stored == links[queue[t].url]
          IN  (TickGetLinks(t) /\ fetched \subseteq stored /\ fetched # stored)
              => links'[queue[t].url] = fetched]_vars

\* The step by which an execution ends on an empty fetch changes neither the
\* links table, nor the jobs table, nor _job_map.
C10_Frame ==
    (out'.src = "do_job" /\ out'.what = <<"no_links">> /\ out' # out)
    => UNCHANGED <<links, jobs, _job_map>>

\* C10: an execution whose fetch is empty delivers nothing and changes
\* neither the snapshot, nor the jobs table, nor _job_map.
C10_EmptyFetchChangesNothing ==
    /\ [](JustEnded("no_links") => (out.delivered = {} /\ ~out.wrote))
    /\ [][C10_Frame]_vars

\* C10 witness: an execution ended on an empty fetch, the snapshot is there.
C10_Witness == JustEnded("no_links") /\ links[out.url] # {}

\* The step is the end of an execution of do_job with the outcome `how`
\* (every step of the bot but PageChange sets out).
Ends(how) ==
    /\ out'.src = "do_job"
    /\ out'.what = <<how>>
    /\ (out' # out \/ run' # run)

\* The /add argument lists that pass the checks of _add_job.
GoodAddArgs == {a \in AddArgs : Len(a) >= 2 /\ is_valid_url(a[1]) /\ IsInt(a[2])}

\* The keywords of an /add argument list, as Job holds them.
KeywordsOf(args) == [i \in 1..(Len(args) - 2) |-> Lower(args[i + 2])]

\* The step is a handler's that ends with the reply "Will start searching".
Accepted ==
    /\ out'.src = "handler"
    /\ out'.what # <<>>
    /\ out'.what[Len(out'.what)] = "will_start"

\* The step is a handler's that replied "15 minutes is the minimum time".
ToldMinimum ==
    /\ out'.src = "handler"
    /\ out'.what # <<>>
    /\ out'.what[1] = "minimum"

\* The step by which an execution ends on a failed download changes neither
\* the links table, nor the jobs table, nor _job_map.
C11_Frame == Ends("fetch_error") => UNCHANGED <<links, jobs, _job_map>>

\* After a failed download nothing was delivered or written, and the job is
\* still the one _job_map holds for its key, not cancelled and ready to be
\* started again.
C11_Retries ==
    JustEnded("fetch_error") =>
        LET key == <<out.user, out.url>>
        IN  /\ out.delivered = {}
            /\ ~out.wrote
            /\ key \in DOMAIN _job_map
            /\ ~queue[_job_map[key]].removed
            /\ run[_job_map[key]].pc = "idle"

\* C11: an execution whose download fails sends nothing, changes neither the
\* snapshot nor the jobs table, and its job stays scheduled under its key.
C11_FetchErrorRetries == []C11_Retries /\ [][C11_Frame]_vars

\* C11 witness: a download failed while a snapshot was stored for the url.
C11_Witness == JustEnded("fetch_error") /\ links[out.url] # {}

\* The step by which an execution ends on a telegram error other than
\* Unauthorized changes neither the jobs table nor _job_map.
C12_Frame == Ends("send_error") => UNCHANGED <<jobs, _job_map>>

\* After such an end the key has its row, and _job_map holds a job for it
\* that was not cancelled.
C12_Kept ==
    JustEnded("send_error") =>
        LET key == <<out.user, out.url>>
        IN  /\ key \in DOMAIN jobs
            /\ key \in DOMAIN _job_map
            /\ ~queue[_job_map[key]].removed

\* C12: a delivery that fails with a transient error keeps the subscription:
\* its row, its key in _job_map and its scheduled job.
C12_TransientKeeps == []C12_Kept /\ [][C12_Frame]_vars

\* C12 witness: the delivery failed after a first message had been sent.
C12_Witness == JustEnded("send_error") /\ out.delivered # {}

\* The job _job_map holds for a key carries the interval and the keywords of
\* the key's row.
C13_StoreAgrees ==
    \A key \in DOMAIN _job_map :
        /\ key \in DOMAIN jobs
        /\ queue[_job_map[key]].interval = 60 * jobs[key].freq
        /\ kw_string(queue[_job_map[key]]) = jobs[key].keywords

\* /add for a key that has a job: the row carries the new interval and
\* keywords, the old job is cancelled or gone, and the one live job of the key
\* is the new one, not started yet.
C13_Replace ==
    \A user \in Users, args \in GoodAddArgs :
        (/\ Accepted
         /\ user \in users
         /\ <<user, args[1]>> \in DOMAIN _job_map
         /\ AddJob(user, args))
        => LET key == <<user, args[1]>>
               old == _job_map[key]
               new == _job_map'[key]
           IN  /\ jobs'[key] = [freq |-> interval_floor(ParseInt(args[2])),
                                keywords |-> kw_string([keywords |-> KeywordsOf(args)])]
               /\ {t \in DOMAIN queue' : <<queue'[t].user, queue'[t].url>> = key
                                         /\ ~queue'[t].removed} = {new}
               /\ queue'[new].keywords = KeywordsOf(args)
               /\ queue'[new].interval = 60 * jobs'[key].freq
               /\ run'[new].pc = "idle"
               /\ old = new \/ old \notin DOMAIN queue' \/ queue'[old].removed
               /\ old = new => run[old].pc = "idle"

\* An execution that starts belongs to a job with the interval and keywords
\* of its key's row.
C13_TickUsesStore ==
    \A t \in Slots :
        (out'.src = "none" /\ TickFetch(t)) =>
            /\ KeyOf(t) \in DOMAIN jobs
            /\ queue[t].interval = 60 * jobs[KeyOf(t)].freq
            /\ kw_string(queue[t]) = jobs[KeyOf(t)].keywords

\* C13: /add for an active key replaces its row and its job: one row with
\* the new interval and keywords, the old job cancelled, and every execution
\* that starts afterwards uses the new interval and keywords.
C13_ReplaceInPlace ==
    []C13_StoreAgrees /\ [][C13_Replace]_vars /\ [][C13_TickUsesStore]_vars

\* C13 witness: the replaced job is still executing with the old keywords
\* while the new job executes with the new ones.
C13_Witness ==
    \E t \in DOMAIN queue :
        /\ queue[t].removed
        /\ KeyOf(t) \in DOMAIN _job_map
        /\ queue[_job_map[KeyOf(t)]].keywords # queue[t].keywords
        /\ run[_job_map[KeyOf(t)]].pc # "idle"

\* C14 (as claimed): the first execution of a scheduled job is due no
\* earlier than one interval after run_repeating.
C14_FirstRunDeferred == \A t \in DOMAIN queue : queue[t].first >= queue[t].interval

\* C15 (as claimed): a process start yields a Bot whose _job_map holds one
\* live job for every key of the jobs table and no other key.
C15_StartupLoadsAll ==
    [][Restart =>
          /\ running'
          /\ DOMAIN _job_map' = DOMAIN jobs'
          /\ \A key \in DOMAIN jobs' :
                 /\ _job_map'[key] \in DOMAIN queue'
                 /\ ~queue'[_job_map'[key]].removed]_vars

\* C16 (as claimed): /remove of a url the user has no row for replies that
\* there is no such job and changes nothing.
C16_RemoveAbsent ==
    [][\A user \in Users, args \in RemoveArgs :
          (/\ out'.src = "handler"
           /\ Len(args) >= 1
           /\ <<user, args[1]>> \notin DOMAIN jobs
           /\ RemoveJob(user, args))
          => /\ out'.what = <<"no_such_job">>
             /\ UNCHANGED <<jobs, _job_map, queue, run>>]_vars

\* C17 (as claimed): an execution of another subscription that reads the
\* snapshot of a url while an execution is between reset_links and add_links
\* does not read the emptied table.  (The table is only ever empty before
\* the first add_links and between a reset_links and its add_links, so the
\* snapshot replaced by an execution that had read a non-empty one was not
\* empty.)
C17_AtomicPersist ==
    [][\A t \in Slots :
          TickGetLinks(t) =>
              \A o \in DOMAIN run \ {t} :
                  (/\ KeyOf(o) # KeyOf(t)
                   /\ queue[o].url = queue[t].url
                   /\ run[o].pc = "add"
                   /\ run[o].old_links # {})
                  => links[queue[t].url] # {}]_vars

\* C18 (as claimed): at most one execution of do_job is in progress per key.
C18_NoOverlapPerKey ==
    \A key \in Keys :
        Cardinality({t \in DOMAIN run : KeyOf(t) = key /\ run[t].pc # "idle"}) <= 1

\* C19 (as claimed): an execution of a job without keywords takes every <a>
\* tag of the page whose href is not '#' as fetched.
C19_EmptyKeywordsMatchAll ==
    [][\A t \in Slots :
          (TickFetch(t) /\ queue[t].keywords = <<>>)
          => run'[t].links = {l \in download(queue[t].url) : l.href # "#"}]_vars

\* Every row and every scheduled job has an interval of at least the floor.
C20_Floor ==
    /\ \A key \in DOMAIN jobs : jobs[key].freq >= minimum_interval
    /\ \A t \in DOMAIN queue : queue[t].interval >= 60 * minimum_interval

\* /add of a registered user with an interval below the floor is accepted:
\* the user is told, the row and the job carry the floor.
C20_Clamp ==
    \A user \in Users, args \in GoodAddArgs :
        (/\ ToldMinimum
         /\ user \in users
         /\ ParseInt(args[2]) < minimum_interval
         /\ AddJob(user, args))
        => /\ out'.what = <<"minimum", "will_start">>
           /\ jobs'[<<user, args[1]>>].freq = minimum_interval
           /\ queue'[_job_map'[<<user, args[1]>>]].interval = 60 * minimum_interval

\* C20: an interval below the floor is clamped to the floor, not rejected,
\* so no row and no scheduled job has an interval below the floor.
C20_ClampedToFloor == []C20_Floor /\ [][C20_Clamp]_vars

\* C20 witness: /add with 10 minutes was just accepted and stored as 15.
C20_Witness ==
    /\ out.what = <<"minimum", "will_start">>
    /\ \E key \in DOMAIN jobs : jobs[key].freq = minimum_interval

\* C21 (as claimed): while a job that _schedule replaced is still executing,
\* the job that replaced it is not executing.
C21_NoOverlapOnReplace ==
    \A o \in DOMAIN queue :
        (queue[o].removed /\ run[o].pc # "idle" /\ KeyOf(o) \in DOMAIN _job_map)
        => run[_job_map[KeyOf(o)]].pc = "idle"

\* C22 (as claimed): with a page that never changes, no execution sets out
\* to notify a link that the user's chat already holds.
C22_NotifiedOnce ==
    \A t \in DOMAIN run :
        run[t].pc = "send" => Pending(run[t].messages) \cap chat[queue[t].user] = {}

\* C23 (as claimed): no message sent to a user carries a link that a message
\* in the user's chat already carried, the page holding the link all along.
C23_NoRedelivery ==
    [][\A t \in Slots :
          TickSendNoted(t)
          => Range(Head(run[t].messages)) \cap chat[queue[t].user] = {}]_vars

\* No row and no scheduled job belongs to a user that is not in users.
C24_NoOrphan ==
    /\ \A key \in DOMAIN jobs : key[1] \in users
    /\ \A t \in DOMAIN queue : queue[t].user \in users

\* A handler that does not end with the confirmation "Will start searching"
\* (so every run of _add_job that add_job left with an exception) leaves the
\* jobs table, _job_map, the job queue and the executions as they were.
C24_Frame ==
    (out'.src = "handler" /\ ~Accepted) => UNCHANGED <<jobs, _job_map, queue, run>>

\* The confirmation is only ever sent for a write that did not fail: the
\* user of a confirmed /add is registered.
C24_Confirmed ==
    Accepted =>
        \A user \in Users, args \in GoodAddArgs : AddJob(user, args) => user \in users

\* C24: when the write of the row fails, _schedule is not reached: the
\* jobs table, _job_map and the job queue stay as they were, and no row or
\* job of an unregistered user ever exists.
C24_FailedWriteChangesNothing ==
    []C24_NoOrphan /\ [][C24_Frame]_vars /\ [][C24_Confirmed]_vars

\* C24 witness: /add with 10 minutes failed on the write while every key
\* (so also the key of the /add) had its scheduled job.
C24_Witness ==
    /\ out.src = "handler"
    /\ out.what = <<"minimum">>
    /\ DOMAIN _job_map = Keys

====
